---- MODULE Spec2Model ----
(***************************************************************************)
(* A model of koheesio's JdbcReader (spark/readers/jdbc.py) and of the     *)
(* download_url / DownloadExternalFile transformation                      *)
(* (spark/transformations/download_external_file.py).                      *)
(*                                                                         *)
(* Four specifications share the variables:                                *)
(*   SpecJdbc       one JdbcReader, its get_options and execute            *)
(*   SpecDownload   download_url called directly, one call at a time,      *)
(*                  against a filesystem and an HTTP server                *)
(*   SpecTransform  DownloadExternalFile applied to a DataFrame            *)
(*   SpecConc       download_url calls running concurrently, one step of   *)
(*                  one call at a time                                     *)
(***************************************************************************)
EXTENDS Integers, Sequences, FiniteSets, TLC

VARIABLES
    reader,     \* the JdbcReader's fields
    jpc,        \* "ready", "done" (execute returned) or "failed" (it raised)
    jerr,       \* the exception execute raised, "" when none
    handed,     \* the format and options map given to spark.read...load()
    outputDf,   \* self.output.df
    jlog,       \* the messages given to self.log.info, in order
    jcalls,     \* what execute has called: get_options, get_secret_value, load
    returned,   \* the result of a direct call of get_options
    dirs,       \* the filesystem's directories, each a sequence of names
    files,      \* the filesystem's regular files: path -> content
    last,       \* the latest direct call of download_url: arguments,
                \* the filesystem before it, and its outcome
    ncalls,     \* the number of direct calls made
    result,     \* the latest DownloadExternalFile transformation
    procs,      \* the concurrent download_url calls: position and locals
    lastWriter, \* path -> the call whose write reached that file last
    raced       \* the calls whose mkdir found the directory already made

jvars == <<reader, jpc, jerr, handed, outputDf, jlog, jcalls, returned>>
fsvars == <<dirs, files>>
dvars == <<last, ncalls, result>>
cvars == <<procs, lastWriter, raced>>
vars == <<jvars, fsvars, dvars, cvars>>

(***************************************************************************)
(* Python values. A value is None, a str or a pydantic SecretStr.          *)
(***************************************************************************)
None == [kind |-> "none", s |-> ""]
Str(x) == [kind |-> "str", s |-> x]
SecretStr(x) == [kind |-> "secret", s |-> x]

\* bool(v): None and "" are falsy; SecretStr defines __len__ on its secret
Truthy(v) == v.kind # "none" /\ v.s # ""

get_secret_value(v) == Str(v.s)

EmptyMap == [k \in {} |-> None]

\* None where the strings are token sequences (the downloader's)
NoValue == [kind |-> "none", s |-> <<>>]

\* a filesystem without regular files
NoFiles == [p \in {} |-> <<>>]

\* no direct call of download_url made yet
NoCall ==
    [called |-> FALSE, url |-> "", basepath |-> <<>>, filename |-> <<>>,
     dirsBefore |-> {}, filesBefore |-> NoFiles, raised |-> "", ret |-> NoValue]

\* no transformation run yet
NoResult == [state |-> "none", config |-> <<>>, input |-> <<>>, df |-> <<>>]

\* the concurrent calls
NumProcs == 2
Procs == 1..NumProcs

\* a call that has not started
IdleProc ==
    [pc |-> "idle", url |-> "", basepath |-> <<>>, filename |-> <<>>,
     raised |-> "", ret |-> NoValue]

ConcIdle ==
    /\ procs = [p \in Procs |-> IdleProc]
    /\ lastWriter = [p \in {} |-> 0]
    /\ raced = {}

\* d[k] = v on a dict
Put(m, k, v) == [x \in DOMAIN m \cup {k} |-> IF x = k THEN v ELSE m[x]]

(***************************************************************************)
(* JdbcReader                                                              *)
(***************************************************************************)
BaseKeys == {"driver", "url", "user", "password", "private_key"}

\* the five literal entries of __opts
BaseOptions(r) ==
    [k \in BaseKeys |->
        CASE k = "driver" -> r.driver
          [] k = "url" -> r.url
          [] k = "user" -> r.user
          [] k = "password" -> IF Truthy(r.password) THEN r.password ELSE None
          [] k = "private_key" -> IF Truthy(r.private_key) THEN r.private_key ELSE None]

\* Overlay with a fault: the base entries win over the caller's
OverlayBaseWins(base, extra) ==
    [k \in DOMAIN base \cup DOMAIN extra |->
        IF k \in DOMAIN base THEN base[k] ELSE extra[k]]

\* {..base.., **self.options}: a later entry replaces an earlier one
Overlay(base, extra) ==
    [k \in DOMAIN base \cup DOMAIN extra |->
        IF k \in DOMAIN extra THEN extra[k] ELSE base[k]]

\* v is not None and v != ""
Kept(v) == v # None /\ v # Str("")

\* DropEmpty with a fault: only None is dropped
DropNoneOnly(m) == [k \in {x \in DOMAIN m : m[x] # None} |-> m[k]]

\* {k:v for k,v in __opts.items() if v is not None and v != ""}
DropEmpty(m) == [k \in {x \in DOMAIN m : Kept(m[x])} |-> m[k]]

\* get_options: **self.options raises TypeError when options is None
get_options(r) ==
    IF r.options.isNone
    THEN [err |-> "TypeError", map |-> EmptyMap]
    ELSE [err |-> "", map |-> DropEmpty(Overlay(BaseOptions(r), r.options.map))]

\* BothEmpty with a fault: tests for None instead of falsiness
BothNone(r) == r.dbtable = None /\ r.query = None

\* not self.dbtable and not self.query
BothEmpty(r) == ~Truthy(r.dbtable) /\ ~Truthy(r.query)

\* if pw := self.password: options["password"] = pw.get_secret_value()
RevealPassword(r, o) ==
    IF Truthy(r.password)
    THEN Put(o, "password", get_secret_value(r.password))
    ELSE o

\* if pk := self.private_key: both pem_private_key and private_key are set
RevealPrivateKey(r, o) ==
    IF Truthy(r.private_key)
    THEN Put(Put(o, "pem_private_key", get_secret_value(r.private_key)),
             "private_key", get_secret_value(r.private_key))
    ELSE o

\* SelectSource with a fault: the table name is set whenever it is filled in
SelectSourceBoth(r, o) ==
    LET q == IF Truthy(r.query) THEN Put(o, "query", r.query) ELSE o
    IN IF Truthy(r.dbtable) THEN Put(q, "dbtable", r.dbtable) ELSE q

\* if query := self.query: options["query"] = query
\* else: options["dbtable"] = self.dbtable
SelectSource(r, o) ==
    IF Truthy(r.query)
    THEN Put(o, "query", r.query)
    ELSE Put(o, "dbtable", r.dbtable)

NotHanded == [done |-> FALSE, format |-> "", map |-> EmptyMap]
NoDf == "unset"

SecretCalls(r) ==
    (IF Truthy(r.password) THEN {"password.get_secret_value"} ELSE {})
    \cup (IF Truthy(r.private_key) THEN {"private_key.get_secret_value"} ELSE {})

ExecuteLog(r) ==
    (IF Truthy(r.query) /\ Truthy(r.dbtable)
     THEN <<"Both 'query' and 'dbtable' are filled in, 'dbtable' will be ignored!">>
     ELSE <<>>)
    \o (IF Truthy(r.query) THEN <<"Executing query: " \o r.query.s>> ELSE <<>>)

\* JdbcReader.execute, as the result it leaves behind
execute(r) ==
    IF BothEmpty(r)
    THEN [err |-> "ValueError", handed |-> NotHanded, df |-> NoDf,
          log |-> <<>>, calls |-> {}]
    ELSE LET g == get_options(r)
         IN IF g.err # ""
            THEN [err |-> g.err, handed |-> NotHanded, df |-> NoDf,
                  log |-> SubSeq(ExecuteLog(r), 1,
                                 IF Truthy(r.query) /\ Truthy(r.dbtable) THEN 1 ELSE 0),
                  calls |-> {"get_options"}]
            ELSE [err |-> "",
                  handed |-> [done |-> TRUE, format |-> r.format,
                              map |-> SelectSource(r,
                                        RevealPrivateKey(r, RevealPassword(r, g.map)))],
                  df |-> "DataFrame",
                  log |-> ExecuteLog(r),
                  calls |-> {"get_options", "load"} \cup SecretCalls(r)]

(***************************************************************************)
(* The configurations                                                      *)
(***************************************************************************)
MaxExtras == 2

OptionKeys == BaseKeys \cup {"dbtable", "query", "fetchsize"}
OptionValues == {None, Str(""), Str("opt")}

ExtraMaps ==
    UNION {[ks -> OptionValues] :
             ks \in {s \in SUBSET OptionKeys : Cardinality(s) <= MaxExtras}}

ExtraOptions ==
    {[isNone |-> TRUE, map |-> EmptyMap]}
    \cup {[isNone |-> FALSE, map |-> m] : m \in ExtraMaps}

Readers ==
    [format : {"jdbc"},
     driver : {Str(""), Str("drv")},
     url : {Str("jdbc:url")},
     user : {Str("usr")},
     password : {None, SecretStr(""), SecretStr("pw")},
     private_key : {None, SecretStr(""), SecretStr("pk")},
     dbtable : {None, Str(""), Str("tbl")},
     query : {None, Str(""), Str("qry")},
     options : ExtraOptions]

NotCalled == [state |-> "not_called", map |-> EmptyMap]

JdbcInit ==
    /\ reader \in Readers
    /\ jpc = "ready"
    /\ jerr = ""
    /\ handed = NotHanded
    /\ outputDf = NoDf
    /\ jlog = <<>>
    /\ jcalls = {}
    /\ returned = NotCalled
    /\ dirs = {<<>>}
    /\ files = NoFiles
    /\ last = NoCall
    /\ ncalls = 0
    /\ result = NoResult
    /\ ConcIdle

\* reader.get_options()
GetOptions ==
    /\ returned.state = "not_called"
    /\ LET g == get_options(reader)
       IN returned' = [state |-> IF g.err = "" THEN "ok" ELSE "raised", map |-> g.map]
    /\ UNCHANGED <<reader, jpc, jerr, handed, outputDf, jlog, jcalls, fsvars, dvars, cvars>>

\* reader.execute()
Execute ==
    /\ jpc = "ready"
    /\ LET e == execute(reader)
       IN /\ jpc' = IF e.err = "" THEN "done" ELSE "failed"
          /\ jerr' = e.err
          /\ handed' = e.handed
          /\ outputDf' = e.df
          /\ jlog' = e.log
          /\ jcalls' = e.calls
    /\ UNCHANGED <<reader, returned, fsvars, dvars, cvars>>

JdbcNext == GetOptions \/ Execute

SpecJdbc == JdbcInit /\ [][JdbcNext]_vars

(***************************************************************************)
(* Strings and paths of the downloader. A str is a sequence of tokens,     *)
(* each "/" or a name; an f-string is a concatenation. bytes are a         *)
(* sequence of one-character tokens.                                       *)
(***************************************************************************)
IsName(t) == t # "/" /\ t # "."

RECURSIVE LeadingSlashes(_)
LeadingSlashes(t) ==
    IF t # <<>> /\ Head(t) = "/" THEN 1 + LeadingSlashes(Tail(t)) ELSE 0

RECURSIVE Join(_)
Join(parts) ==
    IF Len(parts) <= 1 THEN parts
    ELSE <<Head(parts), "/">> \o Join(Tail(parts))

\* PathStr with a fault: the directory string is used as it was given
PathStrRaw(t) == t

\* str(Path(t)): repeated and trailing slashes and "." components go,
\* exactly two leading slashes stay, the empty path is "."
PathStr(t) ==
    LET n == LeadingSlashes(t)
        root == IF n = 0 THEN <<>> ELSE IF n = 2 THEN <<"/", "/">> ELSE <<"/">>
        p == root \o Join(SelectSeq(t, IsName))
    IN IF p = <<>> THEN <<".">> ELSE p

\* the file or directory a path string names (absolute paths)
Resolve(t) == SelectSeq(t, IsName)

\* Path.exists()
Exists(d, f, t) == Resolve(t) \in d \/ Resolve(t) \in DOMAIN f

\* Path.mkdir(parents=True, exist_ok=True)
Mkdir(d, t) == d \cup {SubSeq(Resolve(t), 1, n) : n \in 0..Len(Resolve(t))}

\* if not basepath.exists(): basepath.mkdir(parents=True, exist_ok=True)
EnsureDir(d, f, base) == IF Exists(d, f, base) THEN d ELSE Mkdir(d, base)

\* f"{basepath}/{filename}"
FullPath(base, filename) == base \o <<"/">> \o filename

\* with open(full_path, "wb") as file: file.write(content)
WriteFile(f, path, content) == Put(f, Resolve(path), content)

StatusOK == 200

\* IsSuccess with a fault: every 2xx status counts
IsSuccess2xx(response) ==
    response.status_code >= 200 /\ response.status_code < 300

\* response.status_code == 200
IsSuccess(response) == response.status_code = StatusOK

\* f"{response.status_code} - {response.reason}"
StatusText(response) == <<ToString(response.status_code), " - ", response.reason>>

(***************************************************************************)
(* The HTTP server: what requests.get(url) answers                         *)
(***************************************************************************)
UrlOk == "https://random.url.todownload/file.txt"
UrlData == "https://random.url.todownload/data.bin"
UrlMissing == "https://random.url.todownload/missing"
UrlNoContent == "https://random.url.todownload/nocontent"
UrlUnreachable == "https://unreachable.invalid/file.txt"

Response(code, reason, content) ==
    [error |-> FALSE, status_code |-> code, reason |-> reason, content |-> content]

Server ==
    (UrlOk :> Response(200, "OK", <<"o", "k">>))
    @@ (UrlData :> Response(200, "OK", <<"d", "a", "t", "a", "!">>))
    @@ (UrlMissing :> Response(404, "Not Found", <<"g", "o", "n", "e">>))
    @@ (UrlNoContent :> Response(204, "No Content", <<>>))
    @@ (UrlUnreachable :>
          [error |-> TRUE, status_code |-> 0, reason |-> "", content |-> <<>>])

Urls == DOMAIN Server

\* download_url with a fault: a failed GET is caught and reported in-band
download_url_catching(d, f, url, basepath, filename) ==
    LET base == PathStr(basepath)
        d1 == EnsureDir(d, f, base)
        full_path == FullPath(base, filename)
        response == Server[url]
    IN IF ~response.error /\ IsSuccess(response)
       THEN [dirs |-> d1, files |-> WriteFile(f, full_path, response.content),
             raised |-> "", ret |-> Str(full_path)]
       ELSE [dirs |-> d1, files |-> f, raised |-> "",
             ret |-> Str(StatusText(response))]

\* download_url, as the filesystem it leaves, what it raises and returns
download_url(d, f, url, basepath, filename) ==
    LET base == PathStr(basepath)
        d1 == EnsureDir(d, f, base)
        full_path == FullPath(base, filename)
        response == Server[url]
    IN IF response.error
       THEN [dirs |-> d1, files |-> f, raised |-> "ConnectionError", ret |-> NoValue]
       ELSE IF IsSuccess(response)
       THEN [dirs |-> d1, files |-> WriteFile(f, full_path, response.content),
             raised |-> "", ret |-> Str(full_path)]
       ELSE [dirs |-> d1, files |-> f, raised |-> "",
             ret |-> Str(StatusText(response))]

(***************************************************************************)
(* The inputs and the filesystem the calls start from                      *)
(***************************************************************************)
MaxCalls == 2

DirTest == <<"/", "tmp", "/", "download_test", "/">>
DirTestBare == <<"/", "tmp", "/", "download_test">>
DirOut == <<"/", "tmp", "/", "/", "out", "/", ".", "/">>
DirRoot == <<"/">>
Directories == {DirTest, DirTestBare, DirOut, DirRoot}

File1 == <<"file_number_1.txt">>
File2 == <<"file_number_2.txt">>
Filenames == {File1, File2}

OldContent == <<"o", "l", "d", "e", "r">>

\* The filesystem is healthy: a directory argument names nothing or a
\* directory, a destination names nothing or a regular file, and mkdir, open
\* and write do not fail for lack of permission or space.
FsInit ==
    \/ dirs = {<<>>} /\ files = NoFiles
    \/ dirs = {<<>>, <<"tmp">>} /\ files = NoFiles
    \/ dirs = {<<>>, <<"tmp">>, <<"tmp", "download_test">>} /\ files = NoFiles
    \/ /\ dirs = {<<>>, <<"tmp">>, <<"tmp", "download_test">>}
       /\ files = (<<"tmp", "download_test", "file_number_1.txt">> :> OldContent)

JdbcIdle ==
    /\ reader = None
    /\ jpc = "idle"
    /\ jerr = ""
    /\ handed = NotHanded
    /\ outputDf = NoDf
    /\ jlog = <<>>
    /\ jcalls = {}
    /\ returned = NotCalled

DownloadInit ==
    /\ JdbcIdle
    /\ FsInit
    /\ last = NoCall
    /\ ncalls = 0
    /\ result = NoResult
    /\ ConcIdle

\* download_url(url, basepath, filename)
Download(url, basepath, filename) ==
    /\ ncalls < MaxCalls
    /\ LET r == download_url(dirs, files, url, basepath, filename)
       IN /\ dirs' = r.dirs
          /\ files' = r.files
          /\ last' = [called |-> TRUE, url |-> url, basepath |-> basepath,
                      filename |-> filename, dirsBefore |-> dirs,
                      filesBefore |-> files, raised |-> r.raised, ret |-> r.ret]
    /\ ncalls' = ncalls + 1
    /\ UNCHANGED <<jvars, result, cvars>>

DownloadNext ==
    \E url \in Urls, basepath \in Directories, filename \in Filenames :
        Download(url, basepath, filename)

SpecDownload == DownloadInit /\ [][DownloadNext]_vars

(***************************************************************************)
(* DownloadExternalFile                                                    *)
(***************************************************************************)
MaxRows == 2

\* download_url_ufd: calls download_url and returns nothing
download_url_ufd(d, f, url, basepath, filename) ==
    [download_url(d, f, url, basepath, filename) EXCEPT !.ret = NoValue]

\* withColumn(output_location_column, download_url_ufd(...)): the rows in
\* order, each evaluated against the filesystem the earlier rows left;
\* names are the values of uuid(), used when no filename column is set
RECURSIVE WithColumn(_, _, _, _, _)
WithColumn(d, f, rows, cfg, names) ==
    IF rows = <<>>
    THEN [dirs |-> d, files |-> f, raised |-> "", rows |-> <<>>]
    ELSE LET row == Head(rows)
             filename == IF cfg.filename_column # ""
                         THEN row[cfg.filename_column]
                         ELSE Head(names)
             r == download_url_ufd(d, f, row[cfg.download_external_file_column],
                                   row[cfg.upload_location_column], filename)
         IN IF r.raised # ""
            THEN [dirs |-> r.dirs, files |-> r.files, raised |-> r.raised,
                  rows |-> <<>>]
            ELSE LET rest == WithColumn(r.dirs, r.files, Tail(rows), cfg, Tail(names))
                 IN [rest EXCEPT !.rows =
                       <<Put(row, cfg.output_location_column, r.ret)>> \o rest.rows]

Configs ==
    [download_external_file_column : {"download_url"},
     filename_column : {"dynamic_filename", ""},
     upload_location_column : {"upload_location"},
     output_location_column : {"uploaded_url", "upload_url"}]

Rows ==
    [download_url : {UrlOk, UrlMissing, UrlUnreachable},
     dynamic_filename : Filenames,
     upload_location : {DirTest, DirTestBare}]

DataFrames == UNION {[1..n -> Rows] : n \in 0..MaxRows}

\* the values uuid() can give n rows: distinct names
UuidNames(n) ==
    {u \in [1..n -> {<<"uuid-", ToString(i)>> : i \in 1..MaxRows}] :
        \A i, j \in 1..n : i # j => u[i] # u[j]}

\* DownloadExternalFile(**config).transform(df), collected
Transform(cfg, df, names) ==
    /\ result.state = "none"
    /\ LET r == WithColumn(dirs, files, df, cfg, names)
       IN /\ dirs' = r.dirs
          /\ files' = r.files
          /\ result' = [state |-> IF r.raised = "" THEN "ok" ELSE "failed",
                        config |-> cfg, input |-> df, df |-> r.rows]
    /\ UNCHANGED <<jvars, last, ncalls, cvars>>

TransformNext ==
    \E cfg \in Configs, df \in DataFrames :
        \E names \in (IF cfg.filename_column = "" THEN UuidNames(Len(df)) ELSE {<<>>}) :
            Transform(cfg, df, names)

SpecTransform == DownloadInit /\ [][TransformNext]_vars

(***************************************************************************)
(* download_url calls running concurrently: each action is one step of     *)
(* one call                                                                *)
(***************************************************************************)
ConcUrls == {UrlOk, UrlData, UrlMissing, UrlUnreachable}

\* MkdirExistOk with a fault: mkdir without exist_ok
MkdirStrict(d, f, base) ==
    IF Exists(d, f, base)
    THEN [dirs |-> d, raised |-> "FileExistsError"]
    ELSE [dirs |-> Mkdir(d, base), raised |-> ""]

\* basepath.mkdir(parents=True, exist_ok=True), reached after exists() was False
MkdirExistOk(d, f, base) == [dirs |-> Mkdir(d, base), raised |-> ""]

\* OpenTruncate with a fault: the file is opened without truncating it
OpenKeep(f, path) ==
    IF Resolve(path) \in DOMAIN f THEN f ELSE Put(f, Resolve(path), <<>>)

\* open(full_path, "wb"): the file is created or cut to length 0
OpenTruncate(f, path) == Put(f, Resolve(path), <<>>)

\* file.write(content) on a handle at offset 0, flushed by close at the latest
WriteAtStart(f, path, content) ==
    LET old == f[Resolve(path)]
    IN Put(f, Resolve(path), content \o SubSeq(old, Len(content) + 1, Len(old)))

ProcBase(p) == PathStr(procs[p].basepath)
ProcPath(p) == FullPath(ProcBase(p), procs[p].filename)

ConcInit ==
    /\ JdbcIdle
    /\ FsInit
    /\ last = NoCall
    /\ ncalls = 0
    /\ result = NoResult
    /\ ConcIdle

\* the call is made, every call with the same directory:
\* basepath = Path(basepath)
Start(p, url, filename) ==
    /\ procs[p].pc = "idle"
    /\ procs' = [procs EXCEPT ![p] = [pc |-> "exists", url |-> url,
                                      basepath |-> DirTest, filename |-> filename,
                                      raised |-> "", ret |-> NoValue]]
    /\ UNCHANGED <<jvars, fsvars, dvars, lastWriter, raced>>

\* if not basepath.exists():
CheckExists(p) ==
    /\ procs[p].pc = "exists"
    /\ procs' = [procs EXCEPT ![p].pc =
                   IF Exists(dirs, files, ProcBase(p)) THEN "get" ELSE "mkdir"]
    /\ UNCHANGED <<jvars, fsvars, dvars, lastWriter, raced>>

\* basepath.mkdir(parents=True, exist_ok=True)
MakeDir(p) ==
    /\ procs[p].pc = "mkdir"
    /\ LET m == MkdirExistOk(dirs, files, ProcBase(p))
       IN /\ dirs' = m.dirs
          /\ procs' = [procs EXCEPT ![p].pc = IF m.raised = "" THEN "get" ELSE "failed",
                                    ![p].raised = m.raised]
    /\ raced' = IF Exists(dirs, files, ProcBase(p)) THEN raced \cup {p} ELSE raced
    /\ UNCHANGED <<jvars, files, dvars, lastWriter>>

\* response = requests.get(url) and the test of its status
Get(p) ==
    /\ procs[p].pc = "get"
    /\ LET response == Server[procs[p].url]
       IN procs' = [procs EXCEPT ![p] =
             IF response.error
             THEN [@ EXCEPT !.pc = "failed", !.raised = "ConnectionError"]
             ELSE IF IsSuccess(response)
             THEN [@ EXCEPT !.pc = "open"]
             ELSE [@ EXCEPT !.pc = "done", !.ret = Str(StatusText(response))]]
    /\ UNCHANGED <<jvars, fsvars, dvars, lastWriter, raced>>

\* open(full_path, "wb")
Open(p) ==
    /\ procs[p].pc = "open"
    /\ files' = OpenTruncate(files, ProcPath(p))
    /\ procs' = [procs EXCEPT ![p].pc = "write"]
    /\ UNCHANGED <<jvars, dirs, dvars, lastWriter, raced>>

\* file.write(response.content)
Write(p) ==
    /\ procs[p].pc = "write"
    /\ files' = WriteAtStart(files, ProcPath(p), Server[procs[p].url].content)
    /\ lastWriter' = Put(lastWriter, Resolve(ProcPath(p)), p)
    /\ procs' = [procs EXCEPT ![p].pc = "close"]
    /\ UNCHANGED <<jvars, dirs, dvars, raced>>

\* the with block is left: return full_path
Return(p) ==
    /\ procs[p].pc = "close"
    /\ procs' = [procs EXCEPT ![p].pc = "done", ![p].ret = Str(ProcPath(p))]
    /\ UNCHANGED <<jvars, fsvars, dvars, lastWriter, raced>>

ConcNext ==
    \E p \in Procs :
        \/ \E url \in ConcUrls, filename \in Filenames : Start(p, url, filename)
        \/ CheckExists(p)
        \/ MakeDir(p)
        \/ Get(p)
        \/ Open(p)
        \/ Write(p)
        \/ Return(p)

SpecConc == ConcInit /\ [][ConcNext]_vars

(***************************************************************************)
(* Claims about JdbcReader                                                 *)
(***************************************************************************)
ExtraHas(k) ==
    /\ ~reader.options.isNone
    /\ k \in DOMAIN reader.options.map
    /\ Truthy(reader.options.map[k])

\* C4 as stated: with the table name and the query both filled in, whatever
\* the extra options hold, the map execute hands to the connector has 'query'
\* with the configured query and has no 'dbtable'.
C4_QueryAndNoDbtable ==
    (jpc = "done" /\ Truthy(reader.dbtable) /\ Truthy(reader.query))
        => /\ "query" \in DOMAIN handed.map
           /\ handed.map["query"] = reader.query
           /\ "dbtable" \notin DOMAIN handed.map

\* C4 amended: with the table name and the query both filled in, the map
\* execute hands to the connector has 'query' with the configured query, and
\* it has 'dbtable' exactly when the extra options supply a non-empty
\* 'dbtable', whose value it then carries: the configured table name is
\* never in the map.
C4_QueryWinsOverTable ==
    (jpc = "done" /\ Truthy(reader.dbtable) /\ Truthy(reader.query))
        => /\ "query" \in DOMAIN handed.map
           /\ handed.map["query"] = reader.query
           /\ ("dbtable" \in DOMAIN handed.map) <=> ExtraHas("dbtable")
           /\ ExtraHas("dbtable")
                => handed.map["dbtable"] = reader.options.map["dbtable"]

C4_Witness ==
    /\ jpc = "done"
    /\ Truthy(reader.dbtable)
    /\ Truthy(reader.query)
    /\ ExtraHas("fetchsize")
    /\ "query" \in DOMAIN handed.map
    /\ "dbtable" \notin DOMAIN handed.map

\* C5: with the table name and the query both empty or absent, execute
\* raises ValueError before anything else: get_options is not called, no
\* secret is revealed, nothing is loaded and output.df stays unset.
C5_BothEmptyFailsFirst ==
    (jpc # "ready" /\ ~Truthy(reader.dbtable) /\ ~Truthy(reader.query))
        => /\ jpc = "failed"
           /\ jerr = "ValueError"
           /\ jcalls = {}
           /\ handed = NotHanded
           /\ outputDf = NoDf

C5_Witness ==
    /\ jpc = "failed"
    /\ jerr = "ValueError"
    /\ reader.dbtable = Str("")
    /\ reader.query = None
    /\ Truthy(reader.password)
    /\ ~reader.options.isNone

\* C6 as stated: every base key the caller also supplies, non-empty, in the
\* extra options carries the caller's value in the map execute hands to the
\* connector.
C6_CallerValueHanded ==
    jpc = "done"
        => \A k \in BaseKeys :
              ExtraHas(k)
                => /\ k \in DOMAIN handed.map
                   /\ handed.map[k] = reader.options.map[k]

\* C6 amended: the map get_options returns carries the caller's non-empty
\* value for every base key; the map execute hands to the connector carries
\* it for driver, url and user, and for password and private_key only when
\* the reader's own secret is empty or absent: a non-empty secret of the
\* reader is revealed over the caller's value.
C6_CallerValueUnlessSecret ==
    /\ returned.state = "ok"
         => \A k \in BaseKeys :
               ExtraHas(k)
                 => /\ k \in DOMAIN returned.map
                    /\ returned.map[k] = reader.options.map[k]
    /\ jpc = "done"
         => \A k \in BaseKeys :
               ExtraHas(k)
                 => /\ k \in DOMAIN handed.map
                    /\ handed.map[k] =
                         IF k \in {"password", "private_key"} /\ Truthy(reader[k])
                         THEN get_secret_value(reader[k])
                         ELSE reader.options.map[k]

C6_Witness ==
    /\ jpc = "done"
    /\ returned.state = "ok"
    /\ ExtraHas("driver")
    /\ ExtraHas("password")
    /\ Truthy(reader.driver)
    /\ ~Truthy(reader.password)
    /\ handed.map["driver"] = Str("opt")
    /\ handed.map["password"] = Str("opt")

\* C7: the map execute hands to the connector, and the map get_options
\* returns, hold no key whose value is None or the empty string.
C7_NoEmptyValues ==
    /\ jpc = "done"
         => \A k \in DOMAIN handed.map :
               handed.map[k] # None /\ handed.map[k].s # ""
    /\ returned.state = "ok"
         => \A k \in DOMAIN returned.map :
               returned.map[k] # None /\ returned.map[k].s # ""

C7_Witness ==
    /\ jpc = "done"
    /\ returned.state = "ok"
    /\ reader.driver = Str("")
    /\ reader.password = SecretStr("")
    /\ reader.private_key = None
    /\ reader.query = Str("")
    /\ \E k \in DOMAIN reader.options.map : reader.options.map[k] = Str("")
    /\ \E k \in DOMAIN reader.options.map : reader.options.map[k] = None

(***************************************************************************)
(* Claims about download_url, one call at a time                           *)
(***************************************************************************)
Answer == Server[last.url]
Destination == Resolve(last.basepath) \o last.filename
Ancestors(p) == {SubSeq(p, 1, n) : n \in 0..Len(p)}

\* C1: a call whose GET answers 200 leaves the directory in place, with all
\* its ancestors and nothing removed, leaves the file at directory joined
\* with filename holding exactly the response body, and returns a string
\* naming that path: '/tmp/download_test/file_number_1.txt' for directory
\* '/tmp/download_test/' and filename 'file_number_1.txt'.
C1_Status200WritesAndReturnsPath ==
    (last.called /\ ~Answer.error /\ Answer.status_code = 200)
        => /\ last.raised = ""
           /\ Ancestors(Resolve(last.basepath)) \subseteq dirs
           /\ last.dirsBefore \subseteq dirs
           /\ Destination \in DOMAIN files
           /\ files[Destination] = Answer.content
           /\ \A p \in DOMAIN last.filesBefore :
                 p # Destination
                   => p \in DOMAIN files /\ files[p] = last.filesBefore[p]
           /\ last.ret.kind = "str"
           /\ Resolve(last.ret.s) = Destination
           /\ (last.basepath = DirTest /\ last.filename = File1)
                => last.ret.s =
                     <<"/", "tmp", "/", "download_test", "/", "file_number_1.txt">>

C1_Witness ==
    /\ last.called
    /\ last.url = UrlOk
    /\ last.basepath = DirTest
    /\ last.filename = File1
    /\ last.dirsBefore = {<<>>}
    /\ <<"tmp", "download_test">> \in dirs
    /\ files[<<"tmp", "download_test", "file_number_1.txt">>] = <<"o", "k">>
    /\ last.ret = Str(<<"/", "tmp", "/", "download_test", "/", "file_number_1.txt">>)

\* C2: a call whose GET answers any status but 200, other 2xx included,
\* raises nothing, returns '<status_code> - <reason_phrase>' ('404 - Not
\* Found') and leaves every file as it was: the destination is neither
\* created nor modified.
C2_Non200ReturnsStatusText ==
    (last.called /\ ~Answer.error /\ Answer.status_code # 200)
        => /\ last.raised = ""
           /\ last.ret.kind = "str"
           /\ last.ret.s = <<ToString(Answer.status_code), " - ", Answer.reason>>
           /\ last.url = UrlMissing => last.ret.s = <<"404", " - ", "Not Found">>
           /\ files = last.filesBefore

C2_Witness ==
    /\ last.called
    /\ last.url = UrlNoContent
    /\ last.ret = Str(<<"204", " - ", "No Content">>)
    /\ Destination \notin DOMAIN files
    /\ last.dirsBefore # dirs

\* the shape of an in-band status result
IsStatusText(v) == v.kind = "str" /\ Len(v.s) = 3 /\ v.s[2] = " - "

\* C8: a GET that fails at the network layer is not caught: the call raises
\* that error, returns nothing and leaves every file as it was; a status
\* string is returned only for a response whose status is not 200.
C8_NetworkErrorPropagates ==
    /\ (last.called /\ Answer.error)
         => /\ last.raised = "ConnectionError"
            /\ last.ret = NoValue
            /\ files = last.filesBefore
    /\ (last.called /\ IsStatusText(last.ret))
         => ~Answer.error /\ Answer.status_code # 200

C8_Witness ==
    /\ last.called
    /\ last.url = UrlUnreachable
    /\ last.raised = "ConnectionError"
    /\ last.filesBefore # NoFiles
    /\ files = last.filesBefore

(***************************************************************************)
(* Claim about DownloadExternalFile                                        *)
(***************************************************************************)
\* what download_url gives for a row: the destination path or the status text
IsOutcome(row, v) ==
    LET response == Server[row.download_url]
    IN /\ v.kind = "str"
       /\ IF response.status_code = 200
          THEN Resolve(v.s) = Resolve(row.upload_location) \o row.dynamic_filename
          ELSE v.s = <<ToString(response.status_code), " - ", response.reason>>

\* C3: with a filename column, the transformation gives the same rows in
\* the same order, every original column unchanged, and an output column
\* holding each row's download outcome: the destination path on 200, the
\* '<status_code> - <reason_phrase>' string otherwise.
C3_OutputColumnHoldsOutcome ==
    (result.state = "ok" /\ result.config.filename_column # "")
        => /\ Len(result.df) = Len(result.input)
           /\ \A i \in 1..Len(result.input) :
                 /\ \A c \in DOMAIN result.input[i] :
                       result.df[i][c] = result.input[i][c]
                 /\ DOMAIN result.df[i] =
                       DOMAIN result.input[i] \cup {result.config.output_location_column}
                 /\ IsOutcome(result.input[i],
                              result.df[i][result.config.output_location_column])

(***************************************************************************)
(* Claims about concurrent download_url calls                              *)
(***************************************************************************)
Issued(p) == procs[p].pc \in {"open", "write", "close", "done"}
              \/ (procs[p].pc = "failed" /\ procs[p].raised = "ConnectionError")

\* C9: no call fails because another call made the directory first, and
\* the directory exists whenever a call is about to issue its GET or has
\* issued it.
C9_MkdirRaceTolerant ==
    \A p \in Procs :
        /\ procs[p].raised # "FileExistsError"
        /\ (procs[p].pc = "get" \/ Issued(p))
             => Resolve(procs[p].basepath) \in dirs

C9_Witness ==
    \E p, q \in Procs :
        /\ p # q
        /\ p \in raced
        /\ q \notin raced
        /\ procs[p].pc = "done"
        /\ procs[q].pc = "done"
        /\ procs[p].ret = Str(ProcPath(p))

Body(p) == Server[procs[p].url].content

\* the calls that got 200 for path and have returned
Completed(path) ==
    {p \in Procs : procs[p].pc = "done" /\ procs[p].ret.kind = "str"
                   /\ IsSuccess(Server[procs[p].url])
                   /\ Resolve(ProcPath(p)) = path}

\* a call holds path open: it has opened it and not yet returned
HeldOpen(path) ==
    \E p \in Procs : procs[p].pc \in {"write", "close"} /\ Resolve(ProcPath(p)) = path

\* C10 as stated: two calls that both got 200 for the same directory and
\* filename return the same path and, once both have completed, the file
\* holds exactly the body of the call that wrote last.
C10_LastWriterWinsWhole ==
    \A p, q \in Procs :
        (p # q /\ Resolve(ProcPath(p)) = Resolve(ProcPath(q))
         /\ {p, q} \subseteq Completed(Resolve(ProcPath(p)))
         /\ ~HeldOpen(Resolve(ProcPath(p))))
            => /\ procs[p].ret = procs[q].ret
               /\ files[Resolve(ProcPath(p))] = Body(lastWriter[Resolve(ProcPath(p))])

\* C10 amended: calls that got 200 for the same directory and filename
\* return the same path and, once they have completed, the file begins with
\* the complete body of the call that wrote last; it is exactly that body
\* when no completed call's body is longer. A longer body written between
\* the last writer's open and its write leaves its tail in the file.
C10_LastWriterWinsPrefix ==
    \A path \in DOMAIN lastWriter :
        (Completed(path) # {} /\ ~HeldOpen(path))
            => LET b == Body(lastWriter[path])
               IN /\ lastWriter[path] \in Completed(path)
                  /\ \A p, q \in Completed(path) : procs[p].ret = procs[q].ret
                  /\ Len(files[path]) >= Len(b)
                  /\ SubSeq(files[path], 1, Len(b)) = b
                  /\ (\A p \in Completed(path) : Len(Body(p)) <= Len(b))
                        => files[path] = b

C10_Witness ==
    /\ procs[1].pc = "done"
    /\ procs[2].pc = "done"
    /\ procs[1].url = UrlData
    /\ procs[2].url = UrlOk
    /\ procs[1].filename = File1
    /\ procs[2].filename = File1
    /\ lastWriter[<<"tmp", "download_test", "file_number_1.txt">>] = 2
    /\ files[<<"tmp", "download_test", "file_number_1.txt">>] = <<"o", "k", "t", "a", "!">>

====
